---- MODULE Spec2Model ----
(***************************************************************************)
(* A model of the `impaired` crate: unordered comparisons of items, the    *)
(* exhaustive set of comparisons (Comparisons::new), the retaining         *)
(* iterator (RetainItemIterator with its ComparisonResultTracker handles)  *)
(* and the score tracker (Scores).                                         *)
(*                                                                         *)
(* An Option<T> is modelled as a sequence of length at most one:           *)
(* <<>> is None and <<x>> is Some(x).  A HashSet<Comparison> is a set of   *)
(* records in which no two elements are equal under Comparison::eq; its    *)
(* iteration order is unspecified, so `.iter().next()` is a choice of any  *)
(* element.                                                                *)
(***************************************************************************)
EXTENDS Integers, Sequences, FiniteSets, TLC

\* ------------------------------------------------------------------ bounds
\* Items are the values 1..MaxItems; an item collection has at most MaxItems
\* entries.
MaxItems == 4
\* Result handles (ComparisonResultTracker) a caller keeps at the same time;
\* the others are dropped unused.
MaxTrackers == 2
\* HashSet insertions in the specification SpecHashSet.
MaxInserts == 3
\* Scores::track calls in the specification SpecScores.
MaxTracks == 4
\* Items in PUSHED_ITEMS at the same time in the specification SpecWeb.
MaxPushed == 2
\* The strings pushed in SpecWeb are 1..MaxStrings.
MaxStrings == 3
\* trackResult calls that track a result in one ongoing comparison (SpecWeb).
MaxResults == 2

ItemValues == 1..MaxItems

None == <<>>
Some(x) == <<x>>
IsSome(o) == o # <<>>
Unwrap(o) == o[1]

\* --------------------------------------------------------------- Comparison
ComparisonNew(l, r) == [left |-> l, right |-> r]

\* PartialEq for Comparison: equal in either orientation.
ComparisonEq(c, d) ==
    \/ (c.left = d.left /\ c.right = d.right)
    \/ (c.left = d.right /\ c.right = d.left)

CmpMin(a, b) == IF b < a THEN b ELSE a
CmpMax(a, b) == IF b < a THEN a ELSE b

\* Hash for Comparison: what is fed to the hasher, in order.  Two hashes are
\* the same exactly when the same values were fed in the same order.
HashStorageOrder(c) == <<c.left, c.right>>
ComparisonHash(c) == <<CmpMin(c.left, c.right), CmpMax(c.left, c.right)>>

\* Comparison::other: the member that is not `item`; when `item` is not the
\* left member the left member is returned, whatever `item` is.
ComparisonOther(c, item) == IF c.left = item THEN c.right ELSE c.left

HasItem(c, item) == c.left = item \/ c.right = item

\* ------------------------------------------------------------------ HashSet
\* A lookup finds an element with the same hash that is equal under eq.
HashSetContains(S, c) ==
    \E d \in S : ComparisonHash(d) = ComparisonHash(c) /\ ComparisonEq(d, c)

\* insert keeps the stored element when an equal one is present.
HashSetInsert(S, c) == IF HashSetContains(S, c) THEN S ELSE S \cup {c}

HashSetRemove(S, c) ==
    {d \in S : ~(ComparisonHash(d) = ComparisonHash(c) /\ ComparisonEq(d, c))}

\* -------------------------------------------------------- Comparisons::new
\* for other in &it { comparisons.insert(Comparison::new(item, *other)) }
RECURSIVE InsertFrom(_, _, _, _)
InsertFrom(S, item, rest, k) ==
    IF k > Len(rest) THEN S
    ELSE InsertFrom(HashSetInsert(S, ComparisonNew(item, rest[k])), item, rest, k + 1)

InsertAllButFirst(S, item, rest) == InsertFrom(S, item, rest, 2)
InsertPairs(S, item, rest) == InsertFrom(S, item, rest, 1)

\* while let Some(item) = it.pop() { ... }
RECURSIVE PopLoop(_, _)
PopLoop(its, S) ==
    IF its = <<>> THEN S
    ELSE LET item == its[Len(its)]
             rest == SubSeq(its, 1, Len(its) - 1)
         IN  PopLoop(rest, InsertPairs(S, item, rest))

ComparisonsNew(its) == PopLoop(its, {})

\* ------------------------------------------------- RetainItemIterator::new
\* comparisons_by_item: every item that is a member of some comparison, mapped
\* to the comparisons it is a member of.
ByItemNew(cs) ==
    [i \in {c.left : c \in cs} \cup {c.right : c \in cs} |->
        {c \in cs : HasItem(c, i)}]

\* -------------------------------------------------------------------- state
VARIABLES
    items,                       \* the caller's item collection (a Vec of items)
    it,                          \* Comparisons::new: the working Vec `it`
    comparisons,                 \* Comparisons: the HashSet of comparisons
    comparisons_by_item,         \* RetainItemIterator.comparisons_by_item
    previous_comparison,         \* RetainItemIterator.previous_comparison
    previous_comparison_result,  \* the slot shared by the iterator and its trackers
    trackers,                    \* comparisons of the ComparisonResultTrackers still held
    outcome,                     \* "fresh", or what the last next() did: "some", "none", "panic"
    last_op,                     \* the last operation: "new", "next", "winner", "tracker"
    call,                        \* Some(what the last next() saw), None unless last_op = "next"
    emitted,                     \* how often next() has returned each comparison
    reports,                     \* winner reports since the last pair was returned (capped at 2)
    members_only,                \* every report so far named a member of the latest pair, for that pair
    lockstep,                    \* every returned pair so far got exactly one such report
    log,                         \* SpecHashSet: the (left, right) of the comparisons inserted
    scores,                      \* Scores: the HashMap from item to count
    track_call,                  \* Some(the last Scores::track call and the map before it)
    tracks,                      \* the number of Scores::track calls
    appeared,                    \* the items that were winner or loser of a track call
    won,                         \* the items that were winner of a track call
    reported,                    \* Some(the winner report made last since the latest next())
    pushed_items,                \* impaired-web PUSHED_ITEMS: the Vec of pushed Items
    ongoing,                     \* impaired-web ONGOING_COMPARISON.is_some()
    web_call,                    \* Some(the last impaired-web call and the state it found)
    since_start,                 \* the Items pushed since the latest start, in order
    started_with                 \* the item strings the latest start found pushed

vars == <<items, it, comparisons, comparisons_by_item, previous_comparison,
          previous_comparison_result, trackers, outcome, last_op, call, emitted,
          reports, members_only, lockstep, log, scores, track_call, tracks,
          appeared, won, reported, pushed_items, ongoing, web_call, since_start,
          started_with>>

iter_vars == <<comparisons_by_item, previous_comparison, previous_comparison_result>>
ghost_vars == <<reports, members_only, lockstep>>
web_vars == <<pushed_items, ongoing, web_call, since_start, started_with>>
other_vars == <<it, log, scores, track_call, tracks, appeared, won, web_vars>>

\* The state of the parts a specification does not use.
IterUnused ==
    /\ comparisons_by_item = <<>>
    /\ previous_comparison = None
    /\ previous_comparison_result = None
    /\ trackers = {}
    /\ outcome = "fresh"
    /\ last_op = "new"
    /\ call = None
    /\ emitted = <<>>
    /\ reports = 0
    /\ members_only = TRUE
    /\ lockstep = TRUE
    /\ reported = None
ScoresUnused == scores = <<>> /\ track_call = None /\ tracks = 0 /\ appeared = {} /\ won = {}
WebUnused ==
    /\ pushed_items = <<>>
    /\ ongoing = FALSE
    /\ web_call = None
    /\ since_start = <<>>
    /\ started_with = {}

RECURSIVE SeqsUpTo(_)
SeqsUpTo(n) ==
    IF n = 0 THEN {<<>>}
    ELSE LET shorter == SeqsUpTo(n - 1)
         IN  shorter \cup {Append(s, v) : s \in {t \in shorter : Len(t) = n - 1}, v \in ItemValues}

\* Item collections: every sequence of at most MaxItems item values.
ItemLists == SeqsUpTo(MaxItems)
Distinct(s) == \A i, j \in 1..Len(s) : i # j => s[i] # s[j]
ItemSet(s) == {s[i] : i \in 1..Len(s)}

\* ------------------------------------------------------- the iterator: Init
\* let comparisons = Comparisons::new(&items);
\* let mut iterator = comparisons.retain_item_iterator();
\* The items of a collection are distinct (the caller's contract).  The
\* iterator reads item values only through equality, so up to a renaming of
\* the items a collection is the ascending or the descending list of its
\* length: both orientations (left < right, left > right) of the stored
\* comparisons occur.
Ascending(s) == \A i \in 1..Len(s) : s[i] = i
Descending(s) == \A i \in 1..Len(s) : s[i] = Len(s) + 1 - i
IterInputs == {s \in ItemLists : Ascending(s) \/ Descending(s)}

Init ==
    /\ items \in IterInputs
    /\ it = <<>>
    /\ log = <<>>
    /\ ScoresUnused
    /\ WebUnused
    /\ comparisons = ComparisonsNew(items)
    /\ comparisons_by_item = ByItemNew(comparisons)
    /\ previous_comparison = None
    /\ previous_comparison_result = None
    /\ trackers = {}
    /\ outcome = "fresh"
    /\ last_op = "new"
    /\ call = None
    /\ emitted = <<>>
    /\ reports = 0
    /\ members_only = TRUE
    /\ lockstep = TRUE
    /\ reported = None

\* ----------------------------------------------- RetainItemIterator::next
\* The anchors (winner, loser) a next() may work from: the reported result,
\* else the members of the previously returned comparison, else the members
\* of the first comparison of the first map entry (any entry, any element).
\* The empty set stands for `return None` of the seed match.
SeedAnchors ==
    UNION {{<<c.left, c.right>> : c \in comparisons_by_item[i]} :
              i \in DOMAIN comparisons_by_item}

Anchors ==
    IF IsSome(previous_comparison_result)
    THEN {<<Unwrap(previous_comparison_result).winner,
            Unwrap(previous_comparison_result).loser>>}
    ELSE IF IsSome(previous_comparison)
    THEN {<<Unwrap(previous_comparison).left, Unwrap(previous_comparison).right>>}
    ELSE SeedAnchors

\* The seed lookup `.iter().next().expect("at least one item has to exist")`
\* panics when the map has no entry.
SeedPanics ==
    /\ previous_comparison_result = None
    /\ previous_comparison = None
    /\ DOMAIN comparisons_by_item = {}

\* winner_candidate / loser_candidate and the match on them: the comparisons
\* next() may return, any pending comparison of the winner, or, when the
\* winner has none, any of the loser.
LoserFirst(byitem, w, l) == IF byitem[l] # {} THEN byitem[l] ELSE byitem[w]
WinnerOnly(byitem, w, l) == byitem[w]
Candidates(byitem, w, l) == IF byitem[w] # {} THEN byitem[w] ELSE byitem[l]

\* The comparison is removed from the sets of its left and its right member.
RemoveLeftOnly(byitem, c) ==
    [i \in DOMAIN byitem |->
        IF i = c.left THEN HashSetRemove(byitem[i], c) ELSE byitem[i]]
RemoveRightOnly(byitem, c) ==
    [i \in DOMAIN byitem |->
        IF i = c.right THEN HashSetRemove(byitem[i], c) ELSE byitem[i]]
RemoveClearsLeft(byitem, c) ==
    [i \in DOMAIN byitem |->
        IF i = c.left THEN {}
        ELSE IF i = c.right THEN HashSetRemove(byitem[i], c) ELSE byitem[i]]
RemoveComparison(byitem, c) ==
    [i \in DOMAIN byitem |->
        IF i = c.left \/ i = c.right THEN HashSetRemove(byitem[i], c) ELSE byitem[i]]

\* next() leaves the result slot as it is.
SlotAfterNext(slot) == slot

\* The iterator holds no reference to the Comparisons: next() works on its
\* own map and leaves the set as it is.
ConsumedFromSet(cs, c) == HashSetRemove(cs, c)
ComparisonsAfterNext(cs, c) == cs

CountUp(bag, c) ==
    IF c \in DOMAIN bag THEN [bag EXCEPT ![c] = @ + 1]
    ELSE [d \in DOMAIN bag \cup {c} |-> IF d = c THEN 1 ELSE bag[d]]

\* What a next() saw, for the properties that speak about one call.
CallRecord(w, l) ==
    [prev |-> previous_comparison,
     result |-> previous_comparison_result,
     winner |-> w,
     loser |-> l,
     winner_pending |-> comparisons_by_item[w] # {},
     loser_pending |-> comparisons_by_item[l] # {},
     reports |-> reports,
     pending |-> UNION {comparisons_by_item[i] : i \in DOMAIN comparisons_by_item}]

LockstepAfterNext == lockstep /\ (outcome = "fresh" \/ (reports = 1 /\ members_only))

NextPanic ==
    /\ outcome' = "panic"
    /\ last_op' = "next"
    /\ call' = None
    /\ lockstep' = LockstepAfterNext
    /\ reported' = None
    /\ UNCHANGED <<other_vars, items, comparisons, iter_vars, trackers, emitted, reports,
                   members_only>>

NextNone(w, l) ==
    /\ outcome' = "none"
    /\ last_op' = "next"
    /\ call' = Some(CallRecord(w, l))
    /\ previous_comparison_result' = SlotAfterNext(previous_comparison_result)
    /\ lockstep' = LockstepAfterNext
    /\ reported' = None
    /\ UNCHANGED <<other_vars, items, comparisons, comparisons_by_item, previous_comparison,
                   trackers, emitted, reports, members_only>>

NextSome(w, l, c) ==
    /\ comparisons_by_item' = RemoveComparison(comparisons_by_item, c)
    /\ previous_comparison' = Some(c)
    /\ previous_comparison_result' = SlotAfterNext(previous_comparison_result)
    /\ \E keep \in BOOLEAN :
          trackers' = IF keep /\ Cardinality(trackers) < MaxTrackers
                      THEN trackers \cup {c} ELSE trackers
    /\ outcome' = "some"
    /\ last_op' = "next"
    /\ call' = Some(CallRecord(w, l))
    /\ emitted' = CountUp(emitted, c)
    /\ reports' = 0
    /\ lockstep' = LockstepAfterNext
    /\ reported' = None
    /\ comparisons' = ComparisonsAfterNext(comparisons, c)
    /\ UNCHANGED <<other_vars, items, members_only>>

IterNext ==
    /\ outcome # "panic"
    /\ IF SeedPanics THEN NextPanic
       ELSE IF Anchors = {} THEN
            /\ outcome' = "none"
            /\ last_op' = "next"
            /\ call' = None
            /\ lockstep' = LockstepAfterNext
            /\ reported' = None
            /\ UNCHANGED <<other_vars, items, comparisons, iter_vars, trackers, emitted,
                           reports, members_only>>
       ELSE \E a \in Anchors :
            LET w == a[1]
                l == a[2]
            IN  IF w \notin DOMAIN comparisons_by_item
                   \/ l \notin DOMAIN comparisons_by_item
                THEN NextPanic
                ELSE IF Candidates(comparisons_by_item, w, l) = {}
                THEN NextNone(w, l)
                ELSE \E c \in Candidates(comparisons_by_item, w, l) : NextSome(w, l, c)

\* --------------------------------------------- RetainItemIterator::winner
ComparisonResult(c, winner) ==
    [comparison |-> c, winner |-> winner, loser |-> ComparisonOther(c, winner)]

\* The report names a member of the most recently returned comparison and is
\* made for that comparison.
MemberReport(c, w) ==
    /\ IsSome(previous_comparison)
    /\ c = Unwrap(previous_comparison)
    /\ HasItem(c, w)

\* The slot after iterator.winner(winner): replaced when a comparison was
\* returned before, else left as it is.
FirstReportKept(winner) ==
    IF IsSome(previous_comparison_result)
       /\ IsSome(previous_comparison)
       /\ Unwrap(previous_comparison_result).comparison = Unwrap(previous_comparison)
    THEN previous_comparison_result
    ELSE IF IsSome(previous_comparison)
    THEN Some([comparison |-> Unwrap(previous_comparison), winner |-> winner,
               loser |-> ComparisonOther(Unwrap(previous_comparison), winner)])
    ELSE previous_comparison_result
WinnerUnchecked(winner) ==
    IF IsSome(previous_comparison)
    THEN Some([comparison |-> Unwrap(previous_comparison), winner |-> winner,
               loser |-> ComparisonOther(Unwrap(previous_comparison), winner)])
    ELSE Some([comparison |-> ComparisonNew(winner, winner), winner |-> winner,
               loser |-> winner])
IterWinnerSlot(winner) ==
    IF IsSome(previous_comparison)
    THEN Some(ComparisonResult(Unwrap(previous_comparison), winner))
    ELSE previous_comparison_result

\* winner() only reads previous_comparison.
PreviousTaken(prev) == None
PreviousAfterWinner(prev) == prev

IterWinner(winner) ==
    /\ outcome # "panic"
    /\ previous_comparison_result' = IterWinnerSlot(winner)
    /\ previous_comparison' = PreviousAfterWinner(previous_comparison)
    /\ reported' = Some([comparison |-> previous_comparison, winner |-> winner])
    /\ last_op' = "winner"
    /\ call' = None
    /\ reports' = IF reports < 2 THEN reports + 1 ELSE reports
    /\ members_only' = (members_only /\ IsSome(previous_comparison)
                        /\ MemberReport(Unwrap(previous_comparison), winner))
    /\ UNCHANGED <<other_vars, items, comparisons, comparisons_by_item,
                   trackers, outcome, emitted, lockstep>>

\* ------------------------------------------ ComparisonResultTracker::winner
\* The slot after tracker.winner(winner), t the comparison the tracker holds.
TrackerLoserIsRight(t, winner) == Some([comparison |-> t, winner |-> winner, loser |-> t.right])
TrackerUsesLatest(t, winner) ==
    Some([comparison |-> Unwrap(previous_comparison), winner |-> winner,
          loser |-> ComparisonOther(Unwrap(previous_comparison), winner)])
TrackerSlot(t, winner) == Some(ComparisonResult(t, winner))

\* The tracker is consumed by the call.
TrackerWinner(t, winner) ==
    /\ outcome # "panic"
    /\ t \in trackers
    /\ previous_comparison_result' = TrackerSlot(t, winner)
    /\ reported' = Some([comparison |-> Some(t), winner |-> winner])
    /\ trackers' = trackers \ {t}
    /\ last_op' = "tracker"
    /\ call' = None
    /\ reports' = IF reports < 2 THEN reports + 1 ELSE reports
    /\ members_only' = (members_only /\ MemberReport(t, winner))
    /\ UNCHANGED <<other_vars, items, comparisons, comparisons_by_item, previous_comparison,
                   outcome, emitted, lockstep>>

\* A reported winner is an item of the collection the comparisons were built
\* from.
Next ==
    \/ IterNext
    \/ \E w \in ItemSet(items) : IterWinner(w)
    \/ \E t \in trackers, w \in ItemSet(items) : TrackerWinner(t, w)

Spec == Init /\ [][Next]_vars

\* --------------------------------------- Comparisons::retain_item_iterator
\* comparisons.retain_item_iterator() is called again on the same Comparisons
\* (it takes &self) and the program goes on with the new iterator, which
\* shares no state with the other one.  The call record keeps what the other
\* iterator had pending.
RetainItemIterator ==
    /\ outcome # "panic"
    /\ comparisons_by_item' = ByItemNew(comparisons)
    /\ previous_comparison' = None
    /\ previous_comparison_result' = None
    /\ trackers' = {}
    /\ outcome' = "fresh"
    /\ last_op' = "again"
    /\ call' = Some([pending |-> UNION {comparisons_by_item[i] :
                                           i \in DOMAIN comparisons_by_item}])
    /\ emitted' = <<>>
    /\ reports' = 0
    /\ members_only' = TRUE
    /\ lockstep' = TRUE
    /\ reported' = None
    /\ UNCHANGED <<other_vars, items, comparisons>>

NextShared ==
    \/ Next
    \/ RetainItemIterator

SpecShared == Init /\ [][NextShared]_vars

\* ------------------------------------------------- properties of the iterator
Pending == UNION {comparisons_by_item[i] : i \in DOMAIN comparisons_by_item}
NumEmitted == Cardinality(DOMAIN emitted)
NumPairs(n) == (n * (n - 1)) \div 2
SharedItems(c, d) == {c.left, c.right} \cap {d.left, d.right}

\* C1: no comparison is returned by next() twice, in either orientation, and
\* every returned comparison is an element of the Comparisons the iterator
\* was built from, whatever winners are reported through the iterator or
\* through result trackers.
C1_NoRepeatAndMember ==
    /\ \A c \in DOMAIN emitted : emitted[c] = 1 /\ HashSetContains(comparisons, c)
    /\ \A c, d \in DOMAIN emitted : ComparisonEq(c, d) => c = d

\* A run over MaxItems items that returned every comparison, with a report
\* through a result tracker as the last operation.
C1_Witness ==
    /\ Len(items) = MaxItems
    /\ NumEmitted = NumPairs(MaxItems)
    /\ last_op = "tracker"

\* C2: with N >= 2 items, when every returned comparison gets exactly one
\* report naming one of its two members before the following next(), the
\* first next() that returns None comes after exactly N*(N-1)/2 returned
\* comparisons, which are all comparisons of the set.
C2_LockstepComplete ==
    (Len(items) >= 2 /\ lockstep /\ last_op = "next" /\ outcome = "none")
        => /\ NumEmitted = NumPairs(Len(items))
           /\ \A c \in comparisons : c \in DOMAIN emitted

\* C3: when the result in the slot was reported for the most recently
\* returned comparison and its winner still has a pending comparison, next()
\* returns a comparison that has that winner as a member.
C3_WinnerRetained ==
    IsSome(call) =>
        LET k == Unwrap(call) IN
        (/\ IsSome(k.result)
         /\ k.prev = Some(Unwrap(k.result).comparison)
         /\ k.winner = Unwrap(k.result).winner
         /\ k.winner_pending)
            => /\ outcome = "some"
               /\ HasItem(Unwrap(previous_comparison), Unwrap(k.result).winner)

\* The winner of the reported result had a pending comparison and the
\* loser had one too: the returned comparison is one of the winner's and not
\* the previous comparison's loser's.
C3_Witness ==
    /\ IsSome(call)
    /\ IsSome(Unwrap(call).result)
    /\ Unwrap(call).prev = Some(Unwrap(Unwrap(call).result).comparison)
    /\ Unwrap(call).winner_pending
    /\ Unwrap(call).loser_pending
    /\ outcome = "some"
    /\ ~HasItem(Unwrap(previous_comparison), Unwrap(call).loser)

\* C4: when every report made so far named a member of the most recently
\* returned comparison (reports after every, some or no comparison), a
\* comparison returned after the first shares exactly one item with the
\* comparison returned before it.
C4_SharesOneItem ==
    (IsSome(call) /\ outcome = "some" /\ IsSome(Unwrap(call).prev) /\ members_only)
        => Cardinality(SharedItems(Unwrap(Unwrap(call).prev),
                                   Unwrap(previous_comparison))) = 1

\* C5: with fewer than two items the set of comparisons is empty and next()
\* returns None; it does not panic.
C5_FewItemsNoPanic ==
    Len(items) < 2 => (comparisons = {} /\ outcome \in {"fresh", "none"})

\* C8: once next() has returned None, every later next() returns None and
\* leaves the pending comparisons and the previous comparison as they are,
\* whatever is reported in between.
C8_NoneIsFinal ==
    [][outcome = "none" =>
          /\ outcome' = "none"
          /\ comparisons_by_item' = comparisons_by_item
          /\ previous_comparison' = previous_comparison]_vars

\* C9: next() returns None only when no item has a pending comparison.
C9_NoneOnlyWhenExhausted ==
    (last_op = "next" /\ outcome = "none") => Pending = {}

\* ======================================================= Comparisons::new
\* SpecBuild: Comparisons::new on any item list, duplicates included, one
\* step for each turn of `while let Some(item) = it.pop()`.
InitBuild ==
    /\ items \in ItemLists
    /\ it = items
    /\ comparisons = {}
    /\ log = <<>>
    /\ IterUnused
    /\ ScoresUnused
    /\ WebUnused

PopItem ==
    /\ it # <<>>
    /\ LET item == it[Len(it)]
           rest == SubSeq(it, 1, Len(it) - 1)
       IN  /\ it' = rest
           /\ comparisons' = InsertPairs(comparisons, item, rest)
    /\ UNCHANGED <<items, iter_vars, trackers, outcome, last_op, call, emitted,
                   ghost_vars, log, scores, track_call, tracks, appeared, won, reported, web_vars>>

NextBuild == PopItem

SpecBuild == InitBuild /\ [][NextBuild]_vars

Members(c) == {c.left, c.right}

\* The loop, run step by step, ends with what ComparisonsNew computes.
BuildAgrees == it = <<>> => comparisons = ComparisonsNew(items)

\* C6: for N distinct items Comparisons::new returns N*(N-1)/2 comparisons
\* (none for N < 2): every two distinct items are the members of exactly one
\* comparison, and no comparison has the same item as left and right.
C6_ExhaustivePairs ==
    (it = <<>> /\ Distinct(items)) =>
        /\ Cardinality(comparisons) = NumPairs(Len(items))
        /\ Len(items) < 2 => comparisons = {}
        /\ \A a, b \in ItemSet(items) :
              a # b => Cardinality({c \in comparisons : Members(c) = {a, b}}) = 1
        /\ \A c \in comparisons : c.left # c.right /\ Members(c) \subseteq ItemSet(items)

\* Comparisons::new has finished on MaxItems distinct items.
C6_Witness ==
    /\ it = <<>>
    /\ Distinct(items)
    /\ Len(items) = MaxItems
    /\ Cardinality(comparisons) = NumPairs(MaxItems)

\* ============================================= Comparison in a HashSet
\* SpecHashSet: comparisons of any two items are inserted into one HashSet.
InitHashSet ==
    /\ items = <<>>
    /\ it = <<>>
    /\ comparisons = {}
    /\ log = <<>>
    /\ IterUnused
    /\ ScoresUnused
    /\ WebUnused

InsertComparison(a, b) ==
    /\ Len(log) < MaxInserts
    /\ comparisons' = HashSetInsert(comparisons, ComparisonNew(a, b))
    /\ log' = Append(log, <<a, b>>)
    /\ UNCHANGED <<items, it, iter_vars, trackers, outcome, last_op, call, emitted,
                   ghost_vars, scores, track_call, tracks, appeared, won, reported, web_vars>>

NextHashSet == \E a, b \in ItemValues : InsertComparison(a, b)

SpecHashSet == InitHashSet /\ [][NextHashSet]_vars

Inserted == {log[i] : i \in 1..Len(log)}

\* C7: for distinct items a and b, Comparison(a, b) equals Comparison(b, a)
\* and both have the same hash; after both were inserted into a set, the set
\* holds exactly one comparison of a and b, and a lookup of either form finds
\* it.
C7_OrderIndependent ==
    \A a, b \in ItemValues :
        a # b =>
            /\ ComparisonEq(ComparisonNew(a, b), ComparisonNew(b, a))
            /\ ComparisonHash(ComparisonNew(a, b)) = ComparisonHash(ComparisonNew(b, a))
            /\ (<<a, b>> \in Inserted /\ <<b, a>> \in Inserted) =>
                  /\ Cardinality({c \in comparisons : Members(c) = {a, b}}) = 1
                  /\ HashSetContains(comparisons, ComparisonNew(a, b))
                  /\ HashSetContains(comparisons, ComparisonNew(b, a))

\* Comparison(a, b) and then Comparison(b, a) were inserted into an empty set.
C7_Witness ==
    /\ Len(log) = 2
    /\ log[1][1] # log[1][2]
    /\ log[2] = <<log[1][2], log[1][1]>>
    /\ comparisons = {ComparisonNew(log[1][1], log[1][2])}

\* ================================================================== Scores
\* entry(winner).and_modify(|count| *count += 1).or_insert(1);
\* entry(loser).or_insert(0);
WithEntry(sc, i, v) == [j \in DOMAIN sc \cup {i} |-> IF j = i THEN v ELSE sc[j]]

WinnerCounted(sc, winner) ==
    IF winner \in DOMAIN sc THEN WithEntry(sc, winner, sc[winner] + 1)
    ELSE WithEntry(sc, winner, 1)

TrackInsert(sc, winner, loser) == WithEntry(WinnerCounted(sc, winner), loser, 0)
TrackWinnerOnly(sc, winner, loser) == WinnerCounted(sc, winner)
TrackLoserCounted(sc, winner, loser) == WinnerCounted(WinnerCounted(sc, winner), loser)
ScoresTrack(sc, winner, loser) ==
    LET counted == WinnerCounted(sc, winner)
    IN  IF loser \in DOMAIN counted THEN counted ELSE WithEntry(counted, loser, 0)

\* SpecScores: Scores::new() and then track calls on any two items.
InitScores ==
    /\ items = <<>>
    /\ it = <<>>
    /\ comparisons = {}
    /\ log = <<>>
    /\ IterUnused
    /\ ScoresUnused
    /\ WebUnused

Track(winner, loser) ==
    /\ tracks < MaxTracks
    /\ scores' = ScoresTrack(scores, winner, loser)
    /\ track_call' = Some([winner |-> winner, loser |-> loser, before |-> scores])
    /\ tracks' = tracks + 1
    /\ appeared' = appeared \cup {winner, loser}
    /\ won' = won \cup {winner}
    /\ UNCHANGED <<items, it, comparisons, iter_vars, trackers, outcome, last_op,
                   call, emitted, ghost_vars, log, reported, web_vars>>

NextScores == \E winner, loser \in ItemValues : Track(winner, loser)

SpecScores == InitScores /\ [][NextScores]_vars

\* C10: track(winner, loser) increases the winner's count by one (an absent
\* winner gets 1), gives an absent loser the count 0 and leaves a present
\* loser's count as it is, and changes the entry of no other item.  When
\* winner and loser are the same item, that item is counted as the winner.
C10_TrackEffect ==
    IsSome(track_call) =>
        LET k == Unwrap(track_call)
            b == k.before
        IN  /\ DOMAIN scores = DOMAIN b \cup {k.winner, k.loser}
            /\ scores[k.winner] = IF k.winner \in DOMAIN b THEN b[k.winner] + 1 ELSE 1
            /\ k.loser # k.winner =>
                  scores[k.loser] = IF k.loser \in DOMAIN b THEN b[k.loser] ELSE 0
            /\ \A i \in DOMAIN b \ {k.winner, k.loser} : scores[i] = b[i]

\* A track call whose winner and whose loser both had a count above zero, with
\* a third item in the map.
C10_Witness ==
    /\ IsSome(track_call)
    /\ LET k == Unwrap(track_call)
       IN  /\ k.winner # k.loser
           /\ k.winner \in DOMAIN k.before /\ k.before[k.winner] >= 1
           /\ k.loser \in DOMAIN k.before /\ k.before[k.loser] >= 1
           /\ DOMAIN k.before \ {k.winner, k.loser} # {}

\* C11: a track call removes no entry of the map and lowers no count: every
\* item that had an entry before the call has one after it, with a count that
\* is at least what it was.
C11_Monotone ==
    IsSome(track_call) =>
        LET b == Unwrap(track_call).before
        IN  /\ DOMAIN b \subseteq DOMAIN scores
            /\ \A i \in DOMAIN b : scores[i] >= b[i]

\* A track call whose loser already had a count of two, which it keeps.
C11_Witness ==
    /\ IsSome(track_call)
    /\ LET k == Unwrap(track_call)
       IN  /\ k.loser \in DOMAIN k.before
           /\ k.before[k.loser] >= 2
           /\ scores[k.loser] = k.before[k.loser]

\* Scores.get through Deref: Some(count) for an item with an entry, else None.
ScoresGet(sc, i) == IF i \in DOMAIN sc THEN Some(sc[i]) ELSE None

\* C12: the map has an entry for exactly the items that were winner or loser
\* of some track call; the lookup of any other item is None, not Some(0).
C12_KeysAreTracked ==
    /\ DOMAIN scores = appeared
    /\ \A i \in ItemValues :
          IF i \in appeared THEN IsSome(ScoresGet(scores, i))
          ELSE ScoresGet(scores, i) = None

\* Several track calls were made, with an item that only ever lost and an
\* item that never appeared.
C12_Witness ==
    /\ tracks >= 2
    /\ \E i \in appeared : scores[i] = 0
    /\ \E i \in ItemValues : i \notin appeared /\ ScoresGet(scores, i) = None

\* ------------------------------------------- further properties of the iterator
\* C13: a report whose winner is not a member of the comparison it is made
\* for is rejected and leaves the result slot as it was: the slot never holds
\* a result whose winner is outside its comparison.
C13_NonMemberRejected ==
    IsSome(previous_comparison_result) =>
        HasItem(Unwrap(previous_comparison_result).comparison,
                Unwrap(previous_comparison_result).winner)

\* C14: a next() that follows a returned comparison for which no winner was
\* reported works from that comparison's (left, right), not from the winner
\* and loser of an earlier report.
C14_UnreportedUsesPair ==
    [][(last_op' = "next" /\ reports = 0 /\ IsSome(previous_comparison) /\ IsSome(call'))
          => /\ Unwrap(call').winner = Unwrap(previous_comparison).left
             /\ Unwrap(call').loser = Unwrap(previous_comparison).right]_vars

\* C15: directly after a next() that returned a comparison, reporting the
\* winner through the tracker of that comparison writes the slot that
\* iterator.winner would write for the same winner from the same state, and
\* like iterator.winner it changes nothing else of the iterator.
C15_TrackerAsIterWinner ==
    [][(/\ last_op = "next"
        /\ outcome = "some"
        /\ last_op' = "tracker"
        /\ IsSome(previous_comparison_result')
        /\ Unwrap(previous_comparison_result').comparison = Unwrap(previous_comparison))
          => /\ previous_comparison_result' =
                    IterWinnerSlot(Unwrap(previous_comparison_result').winner)
             /\ comparisons_by_item' = comparisons_by_item
             /\ previous_comparison' = previous_comparison
             /\ outcome' = outcome]_vars

\* The tracker of the latest comparison reported its right member, so the
\* loser is the left one.
C15_Witness ==
    /\ last_op = "tracker"
    /\ IsSome(previous_comparison)
    /\ IsSome(previous_comparison_result)
    /\ Unwrap(previous_comparison_result).comparison = Unwrap(previous_comparison)
    /\ Unwrap(previous_comparison_result).winner = Unwrap(previous_comparison).right
    /\ Unwrap(previous_comparison_result).loser = Unwrap(previous_comparison).left
    /\ reports = 1

RECURSIVE BagTotal(_)
BagTotal(bag) ==
    IF DOMAIN bag = {} THEN 0
    ELSE LET c == CHOOSE d \in DOMAIN bag : TRUE
         IN  bag[c] + BagTotal([d \in DOMAIN bag \ {c} |-> bag[d]])

\* C16: a next() that returns a comparison leaves exactly one pending
\* comparison fewer than it found, and the comparisons returned so far and
\* the pending ones add up to the Comparisons: whatever is reported, next()
\* returns a comparison at most as many times as there are comparisons.
C16_PendingDecreases ==
    /\ (last_op = "next" /\ outcome = "some" /\ IsSome(call))
          => Cardinality(Pending) = Cardinality(Unwrap(call).pending) - 1
    /\ BagTotal(emitted) + Cardinality(Pending) = Cardinality(comparisons)
    /\ BagTotal(emitted) <= Cardinality(comparisons)

\* Every comparison of the largest collection was returned, with a report
\* that named an item outside the comparison on the way.
C16_Witness ==
    /\ Len(items) = MaxItems
    /\ BagTotal(emitted) = NumPairs(MaxItems)
    /\ Pending = {}
    /\ ~members_only

\* C17: the set of an item holds only comparisons with that item; a
\* comparison is in the set of its left member exactly when it is in the set
\* of its right member, exactly when next() has not returned it; a next()
\* that returns a comparison removes that comparison and no other.
C17_PendingSetsAgree ==
    /\ \A i \in DOMAIN comparisons_by_item :
          \A c \in comparisons_by_item[i] : HasItem(c, i)
    /\ \A c \in comparisons :
          /\ (c \in comparisons_by_item[c.left]) <=> (c \in comparisons_by_item[c.right])
          /\ (c \in comparisons_by_item[c.left]) <=> (c \notin DOMAIN emitted)
    /\ (last_op = "next" /\ outcome = "some" /\ IsSome(call))
          => /\ Unwrap(previous_comparison) \in Unwrap(call).pending
             /\ \A i \in DOMAIN comparisons_by_item :
                   comparisons_by_item[i] =
                      {c \in Unwrap(call).pending : HasItem(c, i)}
                         \ {Unwrap(previous_comparison)}

\* A next() returned a comparison while other comparisons of both of its
\* members stay pending.
C17_Witness ==
    /\ last_op = "next"
    /\ outcome = "some"
    /\ IsSome(call)
    /\ NumEmitted >= 2
    /\ comparisons_by_item[Unwrap(previous_comparison).left] # {}
    /\ comparisons_by_item[Unwrap(previous_comparison).right] # {}

\* The next() call worked from a report for the comparison returned just
\* before it, the reported winner a member of that comparison with nothing
\* pending and the other member with something pending.
C18_Case ==
    /\ last_op = "next"
    /\ IsSome(call)
    /\ LET k == Unwrap(call)
       IN  /\ IsSome(k.prev)
           /\ IsSome(k.result)
           /\ Unwrap(k.result).comparison = Unwrap(k.prev)
           /\ HasItem(Unwrap(k.prev), Unwrap(k.result).winner)
           /\ ~k.winner_pending
           /\ k.loser_pending

\* C18: when the reported winner, a member of the latest comparison, has no
\* pending comparison and the other member has one, next() returns a
\* comparison with that other member.
C18_LoserUsed ==
    C18_Case =>
        /\ outcome = "some"
        /\ Unwrap(call).loser = ComparisonOther(Unwrap(Unwrap(call).prev), Unwrap(call).winner)
        /\ Unwrap(call).loser # Unwrap(call).winner
        /\ HasItem(Unwrap(previous_comparison), Unwrap(call).loser)

C18_Witness == C18_Case /\ outcome = "some" /\ Len(items) >= 3

\* C19: next() and the winner reports leave the Comparisons as built, and an
\* iterator created from them while another one has advanced starts with
\* every comparison pending for both of its members and nothing returned or
\* reported.
C19_SetReadOnly ==
    /\ comparisons = ComparisonsNew(items)
    /\ last_op = "again" =>
          /\ Pending = comparisons
          /\ \A c \in comparisons :
                /\ c \in comparisons_by_item[c.left]
                /\ c \in comparisons_by_item[c.right]
          /\ previous_comparison = None
          /\ previous_comparison_result = None

\* An iterator is created after another one over the same Comparisons has
\* returned every comparison.
C19_Witness ==
    /\ last_op = "again"
    /\ Len(items) >= 3
    /\ Unwrap(call).pending = {}
    /\ Cardinality(Pending) = NumPairs(Len(items))

\* C20: no comparison Comparisons::new produces has left equal to right,
\* whatever the input, an input with a repeated item value included.
C20_NoSelfComparison == \A c \in comparisons : c.left # c.right

\* ---------------------------------------------- further properties of Scores
RECURSIVE ScoresTotal(_)
ScoresTotal(sc) ==
    IF DOMAIN sc = {} THEN 0
    ELSE LET i == CHOOSE j \in DOMAIN sc : TRUE
         IN  sc[i] + ScoresTotal([j \in DOMAIN sc \ {i} |-> sc[j]])

\* C21: on a tracker that started empty the counts add up to the number of
\* track calls, and an item has a count above zero only if it was the winner
\* of some call (three calls give a total of three).
C21_TotalIsCalls ==
    /\ ScoresTotal(scores) = tracks
    /\ \A i \in DOMAIN scores : scores[i] > 0 => i \in won
    /\ \A i \in won : i \in DOMAIN scores /\ scores[i] > 0

\* Three track calls over three items, one per pair of them, with an item
\* that never won.
C21_Witness ==
    /\ tracks = 3
    /\ Cardinality(appeared) = 3
    /\ ScoresTotal(scores) = 3
    /\ \E i \in appeared : i \notin won /\ scores[i] = 0
    /\ \E i \in won : scores[i] = 2

\* ------------------------------------------ the choice a next() call makes
\* The comparisons next() may return in the current state: the first element
\* in iteration order of the anchor's HashSet, and for the seed of any
\* entry's HashSet.  The order is that of std's RandomState, which differs
\* from one map to the next.
NextReturns ==
    IF SeedPanics THEN {}
    ELSE UNION {IF a[1] \in DOMAIN comparisons_by_item /\ a[2] \in DOMAIN comparisons_by_item
                THEN Candidates(comparisons_by_item, a[1], a[2])
                ELSE {} : a \in Anchors}

\* C22 as claimed: the same state and the same input give the same returned
\* comparison, so a next() has at most one possible result.
C22_Deterministic == outcome # "panic" => Cardinality(NextReturns) <= 1

\* The pending comparisons of the item a next() call took its result from.
AnchorPending(k) ==
    {c \in k.pending : HasItem(c, IF k.winner_pending THEN k.winner ELSE k.loser)}

\* C22 amended: the returned comparison is one of the pending comparisons of
\* the anchor item (the winner if it has any, else the loser), where the
\* anchors are those of the result in the slot, else the members of the
\* previous comparison, else the members of some pending comparison; which of
\* them is returned is open, and only a single pending comparison of the
\* anchor item determines it.
C22_ChoiceAmongAnchorPending ==
    (last_op = "next" /\ outcome = "some" /\ IsSome(call)) =>
        LET k == Unwrap(call)
        IN  /\ Unwrap(previous_comparison) \in AnchorPending(k)
            /\ IsSome(k.result) =>
                  /\ k.winner = Unwrap(k.result).winner
                  /\ k.loser = Unwrap(k.result).loser
            /\ (k.result = None /\ IsSome(k.prev)) =>
                  /\ k.winner = Unwrap(k.prev).left
                  /\ k.loser = Unwrap(k.prev).right
            /\ (k.result = None /\ k.prev = None) =>
                  \E c \in k.pending : k.winner = c.left /\ k.loser = c.right
            /\ Cardinality(AnchorPending(k)) = 1 =>
                  AnchorPending(k) = {Unwrap(previous_comparison)}

\* A next() worked from a reported result and returned one of several
\* pending comparisons of the winner.
C22_Witness ==
    /\ last_op = "next"
    /\ outcome = "some"
    /\ IsSome(call)
    /\ IsSome(Unwrap(call).result)
    /\ Unwrap(call).winner_pending
    /\ Cardinality(AnchorPending(Unwrap(call))) >= 2

\* C23: a report through a tracker is recorded for the comparison the
\* tracker was returned with, also when that is no longer the latest one, and
\* a report through the iterator for the latest comparison; for a winner that
\* is a member the recorded loser is the other member of that comparison.
C23_Attribution ==
    [][/\ last_op' = "tracker" =>
             \E t \in trackers :
                /\ trackers' = trackers \ {t}
                /\ IsSome(previous_comparison_result')
                /\ LET r == Unwrap(previous_comparison_result')
                   IN  /\ r.comparison = t
                       /\ HasItem(t, r.winner) =>
                             /\ HasItem(t, r.loser)
                             /\ r.loser # r.winner
                             /\ r.loser = ComparisonOther(t, r.winner)
       /\ (last_op' = "winner" /\ IsSome(previous_comparison)) =>
             /\ IsSome(previous_comparison_result')
             /\ LET r == Unwrap(previous_comparison_result')
                    c == Unwrap(previous_comparison)
                IN  /\ r.comparison = c
                    /\ HasItem(c, r.winner) =>
                          /\ HasItem(c, r.loser)
                          /\ r.loser # r.winner]_vars

\* A tracker reported a member of its comparison after a later comparison
\* was returned.
C23_Witness ==
    /\ last_op = "tracker"
    /\ IsSome(previous_comparison)
    /\ IsSome(previous_comparison_result)
    /\ Unwrap(previous_comparison_result).comparison # Unwrap(previous_comparison)
    /\ HasItem(Unwrap(previous_comparison_result).comparison,
               Unwrap(previous_comparison_result).winner)
    /\ ~HasItem(Unwrap(previous_comparison),
                Unwrap(previous_comparison_result).loser)

\* C24: a winner report, through the iterator or a tracker, changes no
\* item's set of pending comparisons and not the previous comparison.
C24_WinnerFrame ==
    [][(last_op' = "winner" \/ last_op' = "tracker") =>
          /\ comparisons_by_item' = comparisons_by_item
          /\ previous_comparison' = previous_comparison]_vars

\* A report changed the slot while comparisons were pending.
C24_Witness ==
    /\ last_op = "winner"
    /\ IsSome(previous_comparison)
    /\ IsSome(previous_comparison_result)
    /\ Unwrap(previous_comparison_result).comparison = Unwrap(previous_comparison)
    /\ Pending # {}

\* C25: iterator.winner before any comparison was returned leaves the slot
\* empty, and the first next() takes its anchors from a pending comparison.
C25_FreshWinnerNoEffect ==
    /\ previous_comparison = None => previous_comparison_result = None
    /\ (last_op = "next" /\ IsSome(call) /\ Unwrap(call).prev = None) =>
          /\ Unwrap(call).result = None
          /\ \E c \in Unwrap(call).pending :
                /\ Unwrap(call).winner = c.left
                /\ Unwrap(call).loser = c.right

\* The first next() came after a report and returned a comparison.
C25_Witness ==
    /\ last_op = "next"
    /\ outcome = "some"
    /\ IsSome(call)
    /\ Unwrap(call).prev = None
    /\ Unwrap(call).reports >= 1

\* C26: after several reports since the latest returned comparison, next()
\* works from the winner and the loser of the last report alone.
C26_LastReportCounts ==
    [][(/\ last_op' = "next"
        /\ IsSome(call')
        /\ reports >= 2
        /\ IsSome(reported)
        /\ IsSome(Unwrap(reported).comparison))
          => /\ Unwrap(call').winner = Unwrap(reported).winner
             /\ Unwrap(call').loser =
                   ComparisonOther(Unwrap(Unwrap(reported).comparison),
                                   Unwrap(reported).winner)]_vars

\* A next() after two reports worked from a result that names the other
\* member of the comparison than the one a single default would.
C26_Witness ==
    /\ last_op = "next"
    /\ outcome = "some"
    /\ IsSome(call)
    /\ Unwrap(call).reports >= 2
    /\ IsSome(Unwrap(call).prev)
    /\ IsSome(Unwrap(call).result)
    /\ Unwrap(Unwrap(call).result).comparison = Unwrap(Unwrap(call).prev)
    /\ Unwrap(call).winner = Unwrap(Unwrap(call).prev).right

\* ===================================================== impaired-web (lib.rs)
\* The strings a caller pushes.
WebStrings == 1..MaxStrings

\* hash_one: DefaultHasher::new() has fixed keys, so the hash is a function
\* of the string; the strings of the model have different hashes.
HashOne(x) == 1000 + x
\* A hash that is the hash of no pushed string.
NoHash == 0
WebHashes == {HashOne(x) : x \in WebStrings} \cup {NoHash}

\* Item::new
WebItemNew(x) == [hash |-> HashOne(x), item |-> x]

\* The HashMap start_comparison builds: item.hash -> impaired::Item(item.item),
\* a later insert replacing an earlier one of the same hash.
RECURSIVE StartMap(_)
StartMap(pushed) ==
    IF pushed = <<>> THEN <<>>
    ELSE LET m == StartMap(SubSeq(pushed, 1, Len(pushed) - 1))
             last == pushed[Len(pushed)]
         IN  [h \in DOMAIN m \cup {last.hash} |-> IF h = last.hash THEN last.item ELSE m[h]]

\* items.values(): the values of the map in some iteration order.
ValueOrders(m) ==
    {o \in [1..Cardinality(DOMAIN m) -> {m[h] : h \in DOMAIN m}] :
        \A i, j \in 1..Cardinality(DOMAIN m) : i # j => o[i] # o[j]}

\* fields.items.get(&hash), on the session's items in values() order.
ItemsGetOrFirst(its, h) ==
    IF \E i \in 1..Len(its) : HashOne(its[i]) = h
    THEN Some(CHOOSE x \in ItemSet(its) : HashOne(x) = h)
    ELSE IF its # <<>> THEN Some(its[1]) ELSE None
ItemsGet(its, h) ==
    IF \E i \in 1..Len(its) : HashOne(its[i]) = h
    THEN Some(CHOOSE x \in ItemSet(its) : HashOne(x) = h)
    ELSE None

\* pushed_items.clear() of start_comparison.
PushedKept(pushed) == pushed
PushedAfterStart(pushed) == <<>>

\* reset_comparison takes the session and leaves PUSHED_ITEMS alone.
ResetReturnsItems(pushed, its) == pushed \o [i \in 1..Len(its) |-> WebItemNew(its[i])]
PushedAfterReset(pushed, its) == pushed

\* push_item pushes to PUSHED_ITEMS and leaves the session's items alone.
PushedIntoSession(its, x) == IF x \in ItemSet(its) THEN its ELSE Append(its, x)
ItemsAfterPush(its, x) == its

\* What RetainItemIterator::next does on an iterator with the given fields:
\* the possible outcomes, a panic, None or Some(comparison).
NextOutcomes(byitem, prev, slot) ==
    LET seed == UNION {{<<c.left, c.right>> : c \in byitem[i]} : i \in DOMAIN byitem}
        anchors == IF IsSome(slot) THEN {<<Unwrap(slot).winner, Unwrap(slot).loser>>}
                   ELSE IF IsSome(prev) THEN {<<Unwrap(prev).left, Unwrap(prev).right>>}
                   ELSE seed
        panic == [kind |-> "panic", c |-> None]
        none == [kind |-> "none", c |-> None]
    IN  IF slot = None /\ prev = None /\ DOMAIN byitem = {} THEN {panic}
        ELSE IF anchors = {} THEN {none}
        ELSE UNION {IF a[1] \notin DOMAIN byitem \/ a[2] \notin DOMAIN byitem THEN {panic}
                    ELSE IF Candidates(byitem, a[1], a[2]) = {} THEN {none}
                    ELSE {[kind |-> "some", c |-> Some(c)] :
                             c \in Candidates(byitem, a[1], a[2])} : a \in anchors}

\* The Comparison next_comparison returns for a comparison of the iterator.
WebComparison(c) == [left |-> WebItemNew(c.left), right |-> WebItemNew(c.right)]

\* The call made last, for the properties that speak about one call.
WebCall(op, winner, loser, returned, before) ==
    Some([op |-> op, winner |-> winner, loser |-> loser, returned |-> returned,
          before |-> before])

\* The variables impaired-web does not have.
web_frame == <<it, log, track_call, appeared, won, trackers, last_op, call, emitted,
               ghost_vars, reported>>

InitWeb ==
    /\ items = <<>>
    /\ it = <<>>
    /\ comparisons = {}
    /\ log = <<>>
    /\ IterUnused
    /\ ScoresUnused
    /\ WebUnused

\* The strings are told apart by equality only, so up to a renaming a new
\* string is the first one not in use.
KnownStrings == ItemSet(items) \cup {pushed_items[i].item : i \in 1..Len(pushed_items)}
PushInputs == {x \in WebStrings : x \in KnownStrings \/ x - 1 \in KnownStrings \/ x = 1}

\* pushItem(item)
PushItem(x) ==
    /\ outcome # "panic"
    /\ Len(pushed_items) < MaxPushed
    /\ pushed_items' = Append(pushed_items, WebItemNew(x))
    /\ items' = ItemsAfterPush(items, x)
    /\ since_start' = Append(since_start, WebItemNew(x))
    /\ web_call' = WebCall("pushItem", None, None, None, None)
    /\ UNCHANGED <<web_frame, comparisons, iter_vars, scores, tracks, outcome, ongoing,
                   started_with>>

\* resetComparison(): ONGOING_COMPARISON.take()
ResetComparison ==
    /\ outcome # "panic"
    /\ ongoing' = FALSE
    /\ items' = <<>>
    /\ comparisons' = {}
    /\ comparisons_by_item' = <<>>
    /\ previous_comparison' = None
    /\ previous_comparison_result' = None
    /\ scores' = <<>>
    /\ tracks' = 0
    /\ outcome' = "fresh"
    /\ pushed_items' = PushedAfterReset(pushed_items, items)
    /\ web_call' = WebCall("resetComparison", None, None, None,
                          Some([ongoing |-> ongoing, items |-> items, scores |-> scores]))
    /\ UNCHANGED <<web_frame, since_start, started_with>>

\* The session start_comparison builds from PUSHED_ITEMS, for one iteration
\* order of the item map.
Started(order) ==
    /\ items' = order
    /\ comparisons' = ComparisonsNew(order)
    /\ scores' = <<>>
    /\ tracks' = 0
    /\ pushed_items' = PushedAfterStart(pushed_items)
    /\ ongoing' = TRUE
    /\ since_start' = <<>>
    /\ started_with' = {pushed_items[i].item : i \in 1..Len(pushed_items)}

\* startComparison(): replaces the session, also an ongoing one.
StartComparison ==
    /\ outcome # "panic"
    /\ \E order \in ValueOrders(StartMap(pushed_items)) :
          /\ Started(order)
          /\ comparisons_by_item' = ByItemNew(ComparisonsNew(order))
    /\ previous_comparison' = None
    /\ previous_comparison_result' = None
    /\ outcome' = "fresh"
    /\ web_call' = WebCall("startComparison", None, None, None, None)
    /\ UNCHANGED web_frame

\* iterator.next() of next_comparison on the iterator fields given.
WebNext(byitem, prev, slot) ==
    \E o \in NextOutcomes(byitem, prev, slot) :
       /\ comparisons_by_item' =
             IF o.kind = "some" THEN RemoveComparison(byitem, Unwrap(o.c)) ELSE byitem
       /\ previous_comparison' = IF o.kind = "some" THEN o.c ELSE prev
       /\ previous_comparison_result' = SlotAfterNext(slot)
       /\ outcome' = o.kind
       /\ web_call' = WebCall("nextComparison", None, None,
                              IF o.kind = "some" THEN Some(WebComparison(Unwrap(o.c)))
                              ELSE None,
                              None)

\* nextComparison(): starts a comparison when none is ongoing, then pulls.
NextComparison ==
    /\ outcome # "panic"
    /\ IF ongoing
       THEN /\ WebNext(comparisons_by_item, previous_comparison, previous_comparison_result)
            /\ UNCHANGED <<items, comparisons, scores, tracks, pushed_items, ongoing,
                           since_start, started_with>>
       ELSE \E order \in ValueOrders(StartMap(pushed_items)) :
               /\ Started(order)
               /\ WebNext(ByItemNew(ComparisonsNew(order)), None, None)
    /\ UNCHANGED web_frame

\* trackResult(winner, loser): the Items come from the caller, only their
\* hash is read.
TrackResult(winner, loser) ==
    /\ outcome # "panic"
    /\ web_call' = WebCall("trackResult", Some(winner), Some(loser), None, None)
    /\ IF ongoing /\ IsSome(ItemsGet(items, winner)) /\ IsSome(ItemsGet(items, loser))
       THEN /\ tracks < MaxResults
            /\ previous_comparison_result' = IterWinnerSlot(Unwrap(ItemsGet(items, winner)))
            /\ scores' = ScoresTrack(scores, Unwrap(ItemsGet(items, winner)),
                                     Unwrap(ItemsGet(items, loser)))
            /\ tracks' = tracks + 1
       ELSE UNCHANGED <<previous_comparison_result, scores, tracks>>
    /\ UNCHANGED <<web_frame, items, comparisons, comparisons_by_item, previous_comparison,
                   outcome, pushed_items, ongoing, since_start, started_with>>

NextWeb ==
    \/ \E x \in PushInputs : PushItem(x)
    \/ ResetComparison
    \/ StartComparison
    \/ NextComparison
    \/ \E winner, loser \in WebHashes : TrackResult(winner, loser)

SpecWeb == InitWeb /\ [][NextWeb]_vars

\* hasOngoingComparison()
HasOngoingComparison == ongoing

\* getScores(): a Score for every entry of the session's Scores, none
\* without a session.
GetScores ==
    IF ongoing THEN {[item |-> WebItemNew(i), score |-> scores[i]] : i \in DOMAIN scores}
    ELSE {}

\* getItems(): PUSHED_ITEMS without a session, else the session's items.
GetItems ==
    IF ~HasOngoingComparison THEN pushed_items
    ELSE [i \in 1..Len(items) |-> WebItemNew(items[i])]

\* ------------------------------------------------- properties of impaired-web
\* The step is a call of the operation op.
WebStep(op) == IsSome(web_call') /\ Unwrap(web_call').op = op

\* The session's items with the hash h.
SessionItems(h) == {x \in ItemSet(items) : ongoing /\ WebItemNew(x).hash = h}

\* What trackResult leaves alone when it does nothing.
TrackResultNoEffect ==
    /\ scores' = scores
    /\ previous_comparison_result' = previous_comparison_result
    /\ pushed_items' = pushed_items

\* C27 as claimed: trackResult changes nothing without an ongoing comparison
\* or with a hash that is none of its items, and otherwise writes the result
\* slot and the scores in the same call.
C27_SlotAndScoresTogether ==
    [][WebStep("trackResult") =>
          LET w == SessionItems(Unwrap(Unwrap(web_call').winner))
              l == SessionItems(Unwrap(Unwrap(web_call').loser))
          IN  IF w = {} \/ l = {} THEN TrackResultNoEffect
              ELSE /\ IsSome(previous_comparison_result')
                   /\ Unwrap(previous_comparison_result').winner \in w
                   /\ \E x \in w, y \in l : scores' = ScoresTrack(scores, x, y)]_vars

\* C27 amended: as claimed, but the result slot is written only when a
\* comparison was returned in this session; before that the call tracks the
\* scores and leaves the slot empty.  Nothing else of the session and not the
\* pushed list changes.
C27_TrackResultEffect ==
    [][WebStep("trackResult") =>
          LET w == SessionItems(Unwrap(Unwrap(web_call').winner))
              l == SessionItems(Unwrap(Unwrap(web_call').loser))
          IN  /\ IF w = {} \/ l = {} THEN TrackResultNoEffect
                 ELSE /\ \E x \in w, y \in l : scores' = ScoresTrack(scores, x, y)
                      /\ IF IsSome(previous_comparison)
                         THEN /\ IsSome(previous_comparison_result')
                              /\ Unwrap(previous_comparison_result').winner \in w
                              /\ Unwrap(previous_comparison_result').comparison =
                                    Unwrap(previous_comparison)
                         ELSE previous_comparison_result' = None
              /\ pushed_items' = pushed_items
              /\ items' = items
              /\ comparisons_by_item' = comparisons_by_item
              /\ previous_comparison' = previous_comparison
              /\ ongoing' = ongoing]_vars

\* trackResult with two items of the session after a comparison was
\* returned: the slot and the scores both hold the result.
C27_Witness ==
    /\ IsSome(web_call)
    /\ Unwrap(web_call).op = "trackResult"
    /\ ongoing
    /\ IsSome(previous_comparison)
    /\ IsSome(previous_comparison_result)
    /\ Unwrap(Unwrap(web_call).winner) = HashOne(Unwrap(previous_comparison_result).winner)
    /\ Unwrap(previous_comparison_result).winner \in DOMAIN scores
    /\ scores[Unwrap(previous_comparison_result).winner] >= 1
    /\ Unwrap(previous_comparison_result).loser \in DOMAIN scores

\* C28: the items of an ongoing comparison are those pushed when it was
\* started, by startComparison or by a nextComparison without an ongoing
\* comparison, and the start empties the pushed list, which holds the items
\* pushed since; the comparisons nextComparison returns and getItems hold
\* the session's items only, whatever is pushed meanwhile.
C28_ItemsFixedAtStart ==
    /\ pushed_items = since_start
    /\ ongoing =>
          /\ ItemSet(items) = started_with
          /\ {GetItems[i].item : i \in 1..Len(GetItems)} = started_with
          /\ \A c \in comparisons : {c.left, c.right} \subseteq started_with
          /\ \A i \in DOMAIN comparisons_by_item :
                /\ i \in started_with
                /\ \A c \in comparisons_by_item[i] : {c.left, c.right} \subseteq started_with
          /\ (/\ IsSome(web_call)
              /\ Unwrap(web_call).op = "nextComparison"
              /\ IsSome(Unwrap(web_call).returned))
                => /\ Unwrap(Unwrap(web_call).returned).left.item \in started_with
                   /\ Unwrap(Unwrap(web_call).returned).right.item \in started_with

\* nextComparison returned a comparison of the session's two items while an
\* item that is not of the session was pushed.
C28_Witness ==
    /\ ongoing
    /\ Cardinality(started_with) = 2
    /\ \E i \in 1..Len(pushed_items) : pushed_items[i].item \notin started_with
    /\ IsSome(web_call)
    /\ Unwrap(web_call).op = "nextComparison"
    /\ IsSome(Unwrap(web_call).returned)

\* C29: resetComparison drops the session and leaves the pushed list as it
\* is: afterwards there is no ongoing comparison, getScores is empty and
\* getItems is the list of the items pushed since the latest start.
C29_ResetDiscardsSession ==
    [][WebStep("resetComparison") =>
          /\ pushed_items' = pushed_items
          /\ ~HasOngoingComparison'
          /\ GetScores' = {}
          /\ GetItems' = since_start'
          /\ items' = <<>>
          /\ comparisons' = {}
          /\ comparisons_by_item' = <<>>
          /\ previous_comparison' = None
          /\ previous_comparison_result' = None
          /\ scores' = <<>>]_vars

\* A session with items and scores was reset while an item was pushed.
C29_Witness ==
    /\ IsSome(web_call)
    /\ Unwrap(web_call).op = "resetComparison"
    /\ Unwrap(Unwrap(web_call).before).ongoing
    /\ Len(Unwrap(Unwrap(web_call).before).items) = 2
    /\ DOMAIN Unwrap(Unwrap(web_call).before).scores # {}
    /\ pushed_items # <<>>
    /\ GetItems = pushed_items
    /\ ~ongoing

====
